---- MODULE Spec2Model ----
(***************************************************************************)
(* Tune-Trainer-Bot: the audio analysis pipeline.                          *)
(*                                                                         *)
(*   decodeWav        the RIFF/WAVE container decoder, step by step        *)
(*   decodeAudioFile  codec selection, fallback, resample and clip         *)
(*   maybeResample, detectPitch, hzToNote, detectKey   the DSP functions   *)
(*                                                                         *)
(* Numbers.  JavaScript numbers are doubles; the model uses integers and   *)
(* exact rationals.  A 32-bit unsigned field of 2^30 or more is read as    *)
(* Huge: every buffer of the model is far shorter, so every comparison the *)
(* code makes with it has the same outcome.                                *)
(***************************************************************************)
EXTENDS Integers, Sequences, FiniteSets, TLC

VARIABLES
    pc,             \* position of the running call
    buf,            \* arrayBuffer: the bytes handed to the decoder
    offset,         \* decodeWav: chunk walk position
    audioFormat,    \* decodeWav: fmt field
    numChannels,    \* decodeWav: fmt field
    sampleRate,     \* decodeWav: fmt field
    bitsPerSample,  \* decodeWav: fmt field
    dataOffset,     \* decodeWav: payload offset, -1 until the data chunk is met
    dataSize,       \* decodeWav: declared payload length
    totalSamples,   \* decodeWav: frames to decode (a number, Infinity or NaN)
    i,              \* decodeWav: frame index of the sample loop
    channel,        \* decodeWav: channel index of the sample loop
    channels,       \* decodeWav: per channel, the samples written so far
    lastRead,       \* decodeWav: the last sample read attempted, <<offset, length>>
    result,         \* what the running call returned or threw
    call,           \* the arguments of the running call
    tried,          \* decodeAudioFile: the codecs attempted, with their errors
    now,            \* the Worker's clock
    recentUpdateIds,\* index.js: the update ids seen in the last minutes
    timers,         \* index.js: the pending setTimeout callbacks of markUpdateSeen
    requests,       \* fetch: the webhook requests, each with its position and response
    handled,        \* the updates handed to handleTelegramUpdate, with the time
    messageTexts    \* processAudioUpdate: the texts the processing message has shown

vars == <<pc, buf, offset, audioFormat, numChannels, sampleRate, bitsPerSample,
          dataOffset, dataSize, totalSamples, i, channel, channels, lastRead,
          result, call, tried, now, recentUpdateIds, timers, requests, handled,
          messageTexts>>

\* the state of the Worker around the analysis functions
botVars == <<now, recentUpdateIds, timers, requests, handled, messageTexts>>

BotIdle ==
    /\ now = 0
    /\ recentUpdateIds = {}
    /\ timers = {}
    /\ requests = <<>>
    /\ handled = <<>>
    /\ messageTexts = <<>>

wavVars == <<offset, audioFormat, numChannels, sampleRate, bitsPerSample,
             dataOffset, dataSize, totalSamples, i, channel, channels, lastRead>>

----------------------------------------------------------------------------
\* Bounds of the model.

\* longest data payload, in bytes
MaxData == 4
\* longest unknown chunk placed before the data chunk, in bytes
MaxUnknownLen == 3
\* iterations of a sample loop that decodes nothing before the model stops counting
SpinCap == 3

----------------------------------------------------------------------------
\* Values.

Huge == 1073741824

\* A call's outcome.  reasons lists the codec failure reasons the text of a
\* thrown error carries.
NoResult ==
    [kind |-> "none", name |-> "", message |-> "", reasons |-> <<>>, samples |-> <<>>,
     sampleRate |-> 0]
Thrown(n, m) ==
    [kind |-> "error", name |-> n, message |-> m, reasons |-> <<>>, samples |-> <<>>,
     sampleRate |-> 0]
Returned(s, r) ==
    [kind |-> "ok", name |-> "", message |-> "", reasons |-> <<>>, samples |-> s,
     sampleRate |-> r]
Reason(c, m) == [codec |-> c, reason |-> m]

Num(n) == [kind |-> "num", n |-> n]
Infinity == [kind |-> "inf", n |-> 0]
NaN == [kind |-> "nan", n |-> 0]

Min(a, b) == IF a <= b THEN a ELSE b
Max(a, b) == IF a >= b THEN a ELSE b

----------------------------------------------------------------------------
\* DataView reads (little-endian).  InBounds is the check every DataView
\* getter makes before it reads; a failed check throws a RangeError.

InBounds(b, off, n) == off >= 0 /\ off + n <= Len(b)

getUint8(b, off) == b[off + 1]

getUint16(b, off) == b[off + 1] + 256 * b[off + 2]

getUint32(b, off) ==
    IF b[off + 4] >= 64 THEN Huge
    ELSE b[off + 1] + 256 * b[off + 2] + 65536 * b[off + 3] + 16777216 * b[off + 4]

getInt16(b, off) ==
    LET u == getUint16(b, off) IN IF u >= 32768 THEN u - 65536 ELSE u

getInt32(b, off) ==
    LET top == IF b[off + 4] >= 128 THEN b[off + 4] - 256 ELSE b[off + 4]
    IN  top * 16777216 + (b[off + 1] + 256 * b[off + 2] + 65536 * b[off + 3])

\* String.fromCharCode of four bytes, kept as the four codes
Tag(b, off) == <<b[off + 1], b[off + 2], b[off + 3], b[off + 4]>>

RIFF == <<82, 73, 70, 70>>
WAVE == <<87, 65, 86, 69>>
FMT == <<102, 109, 116, 32>>
DATA == <<100, 97, 116, 97>>

----------------------------------------------------------------------------
\* Sample values.  An integer sample is num / 2^exp; a float sample is kept
\* as its four bytes; a mixed-down sample is the mean of its channel values.

\* An interpolated sample is of[1] * (1 - num/exp) + of[2] * (num/exp).
IntSample(n, e) == [kind |-> "int", num |-> n, exp |-> e, of |-> <<>>]
LerpSample(l, r, fn, fd) == [kind |-> "lerp", num |-> fn, exp |-> fd, of |-> <<l, r>>]
FloatSample(bytes) == [kind |-> "float32", num |-> 0, exp |-> 0, of |-> bytes]
MeanSample(vs) == [kind |-> "mean", num |-> 0, exp |-> 0, of |-> vs]

\* bits by which an integer of magnitude 2^24 or more loses precision in a
\* Float32Array element (24-bit significand)
ExcessBits(n) ==
    LET m == IF n < 0 THEN -(n + 1) ELSE n
    IN  IF m >= 1073741824 THEN 7
        ELSE IF m >= 536870912 THEN 6
        ELSE IF m >= 268435456 THEN 5
        ELSE IF m >= 134217728 THEN 4
        ELSE IF m >= 67108864 THEN 3
        ELSE IF m >= 33554432 THEN 2
        ELSE IF m >= 16777216 THEN 1
        ELSE 0

Pow2(k) == IF k = 0 THEN 1 ELSE IF k = 1 THEN 2 ELSE IF k = 2 THEN 4
           ELSE IF k = 3 THEN 8 ELSE IF k = 4 THEN 16 ELSE IF k = 5 THEN 32
           ELSE IF k = 6 THEN 64 ELSE 128

\* a store that keeps every bit of the value
ToFloat32Exact(v) == v

\* the store into a Float32Array element: round to nearest, ties to even
ToFloat32(v) ==
    IF v.kind # "int" THEN v
    ELSE LET k == ExcessBits(v.num)
             q == v.num \div Pow2(k)
             r == v.num - q * Pow2(k)
             up == 2 * r > Pow2(k) \/ (2 * r = Pow2(k) /\ q % 2 = 1)
         IN  IF k = 0 THEN v
             ELSE IntSample(IF up THEN q + 1 ELSE q, v.exp - k)

\* bytes one sample occupies for a supported encoding, 0 for an unsupported one
SampleBytes(fmt, bits) ==
    IF fmt = 3 /\ bits = 32 THEN 4
    ELSE IF bits = 16 THEN 2
    ELSE IF bits = 24 THEN 3
    ELSE IF bits = 32 THEN 4
    ELSE IF bits = 8 THEN 1
    ELSE 0

\* the value the sample loop computes at sampleIndex
SampleValue(b, sampleIndex, fmt, bits) ==
    IF fmt = 3 /\ bits = 32 THEN FloatSample(Tag(b, sampleIndex))
    ELSE IF bits = 16 THEN IntSample(getInt16(b, sampleIndex), 15)
    ELSE IF bits = 24 THEN
        LET int == 65536 * getUint8(b, sampleIndex + 2) + 256 * getUint8(b, sampleIndex + 1)
                   + getUint8(b, sampleIndex)
        IN  IntSample(IF int >= 8388608 THEN int - 16777216 ELSE int, 23)
    ELSE IF bits = 32 THEN IntSample(getInt32(b, sampleIndex), 31)
    ELSE IntSample(getUint8(b, sampleIndex) - 128, 7)

mergeChannels(channelData) ==
    IF Len(channelData) = 0 THEN <<>>
    ELSE IF Len(channelData) = 1 THEN channelData[1]
    ELSE [k \in 1..Len(channelData[1]) |->
            MeanSample([c \in 1..Len(channelData) |->
                IF k <= Len(channelData[c]) THEN channelData[c][k] ELSE IntSample(0, 0)])]

----------------------------------------------------------------------------
\* decodeWav

\* a clamp against the buffer length that forgets where the payload starts
availableDataSizeFromStart(size, byteLength, off) == Max(0, Min(size, byteLength))

availableDataSize(size, byteLength, off) == Max(0, Min(size, byteLength - off))

\* Math.floor(availableDataSize / bytesPerSample / numChannels), bytesPerSample = bits / 8
TotalSamples(avail, bits, nCh) ==
    IF bits = 0 THEN (IF avail = 0 THEN NaN ELSE Infinity)
    ELSE IF nCh = 0 THEN (IF avail = 0 THEN NaN ELSE Infinity)
    ELSE Num((avail * 8) \div (bits * nCh))

\* i < totalSamples
Below(k, total) ==
    IF total.kind = "nan" THEN FALSE
    ELSE IF total.kind = "inf" THEN TRUE
    ELSE k < total.n

\* a step past a chunk that forgets the padding byte of an odd-length chunk
NextChunkUnpadded(off, chunkSize) == off + 8 + chunkSize

\* the chunk walk's step past a chunk
NextChunk(off, chunkSize) == off + 8 + chunkSize + (chunkSize % 2)

RangeError == Thrown("RangeError", "Offset is outside the bounds of the DataView")

WavFail(err) ==
    /\ result' = [err EXCEPT !.reasons = <<Reason("wav", err.message)>>]
    /\ pc' = "failed"
    /\ UNCHANGED <<botVars, buf, call, tried, wavVars>>

\* lines 104-117: the two tags, then the locals
WavHeader ==
    /\ pc = "wav_header"
    /\ IF ~InBounds(buf, 0, 4) \/ ~InBounds(buf, 8, 4) THEN WavFail(RangeError)
       ELSE IF Tag(buf, 0) # RIFF \/ Tag(buf, 8) # WAVE
            THEN WavFail(Thrown("Error", "Invalid WAV header"))
       ELSE /\ pc' = "wav_walk"
            /\ offset' = 12
            /\ audioFormat' = 1
            /\ numChannels' = 1
            /\ sampleRate' = 44100
            /\ bitsPerSample' = 16
            /\ dataOffset' = -1
            /\ dataSize' = 0
            /\ UNCHANGED <<botVars, buf, call, tried, result, totalSamples, i, channel, channels, lastRead>>

\* lines 119-140: one iteration of the chunk walk
WavChunk ==
    /\ pc = "wav_walk"
    /\ offset + 8 <= Len(buf)
    /\ LET chunkId == Tag(buf, offset)
           chunkSize == getUint32(buf, offset + 4)
       IN  IF chunkId = FMT THEN
               IF ~InBounds(buf, offset + 8, 16) THEN WavFail(RangeError)
               ELSE /\ audioFormat' = getUint16(buf, offset + 8)
                    /\ numChannels' = getUint16(buf, offset + 10)
                    /\ sampleRate' = getUint32(buf, offset + 12)
                    /\ bitsPerSample' = getUint16(buf, offset + 22)
                    /\ offset' = NextChunk(offset, chunkSize)
                    /\ UNCHANGED <<botVars, pc, buf, call, tried, result, dataOffset, dataSize,
                                   totalSamples, i, channel, channels, lastRead>>
           ELSE IF chunkId = DATA THEN
               /\ dataOffset' = offset + 8
               /\ dataSize' = chunkSize
               /\ pc' = "wav_alloc"
               /\ UNCHANGED <<botVars, buf, call, tried, result, offset, audioFormat, numChannels,
                              sampleRate, bitsPerSample, totalSamples, i, channel,
                              channels, lastRead>>
           ELSE
               /\ offset' = NextChunk(offset, chunkSize)
               /\ UNCHANGED <<botVars, pc, buf, call, tried, result, audioFormat, numChannels,
                              sampleRate, bitsPerSample, dataOffset, dataSize,
                              totalSamples, i, channel, channels, lastRead>>

\* lines 119, 142-144: the walk ran off the buffer without a data chunk
WavNoData ==
    /\ pc = "wav_walk"
    /\ ~(offset + 8 <= Len(buf))
    /\ dataOffset = -1
    /\ WavFail(Thrown("Error", "WAV data chunk not found"))

\* lines 146-150: the clamp, the frame count and the channel arrays
WavAlloc ==
    /\ pc = "wav_alloc"
    /\ LET total == TotalSamples(availableDataSize(dataSize, Len(buf), dataOffset),
                                 bitsPerSample, numChannels)
       IN  IF total.kind = "inf" /\ numChannels > 0
           THEN WavFail(Thrown("RangeError", "Invalid typed array length"))
           ELSE /\ totalSamples' = total
                /\ channels' = [c \in 1..numChannels |-> <<>>]
                /\ i' = 0
                /\ channel' = 0
                /\ pc' = "wav_samples"
                /\ UNCHANGED <<botVars, buf, call, tried, result, offset, audioFormat, numChannels,
                               sampleRate, bitsPerSample, dataOffset, dataSize, lastRead>>

\* lines 152-178: one iteration of the inner loop
WavSample ==
    /\ pc = "wav_samples"
    /\ Below(i, totalSamples)
    /\ channel < numChannels
    /\ LET size == SampleBytes(audioFormat, bitsPerSample)
           sampleIndex == dataOffset + (i * numChannels + channel) * size
       IN  IF size = 0
           THEN WavFail(Thrown("Error", "Unsupported WAV bits per sample"))
           ELSE IF ~InBounds(buf, sampleIndex, size)
           THEN /\ lastRead' = <<sampleIndex, size>>
                /\ result' = [RangeError EXCEPT !.reasons = <<Reason("wav", RangeError.message)>>]
                /\ pc' = "failed"
                /\ UNCHANGED <<botVars, buf, call, tried, offset, audioFormat, numChannels,
                               sampleRate, bitsPerSample, dataOffset, dataSize,
                               totalSamples, i, channel, channels>>
           ELSE /\ lastRead' = <<sampleIndex, size>>
                /\ channels' = [channels EXCEPT ![channel + 1] =
                       Append(@, ToFloat32(SampleValue(buf, sampleIndex, audioFormat,
                                                       bitsPerSample)))]
                /\ IF channel + 1 < numChannels
                   THEN channel' = channel + 1 /\ i' = i
                   ELSE channel' = 0 /\ i' = i + 1
                /\ UNCHANGED <<botVars, pc, buf, call, tried, result, offset, audioFormat,
                               numChannels, sampleRate, bitsPerSample, dataOffset,
                               dataSize, totalSamples>>

\* lines 152-153 with no channel: the outer loop counts on and decodes nothing
WavSpin ==
    /\ pc = "wav_samples"
    /\ Below(i, totalSamples)
    /\ numChannels = 0
    /\ i < SpinCap
    /\ i' = i + 1
    /\ UNCHANGED <<botVars, pc, buf, call, tried, result, offset, audioFormat, numChannels,
                   sampleRate, bitsPerSample, dataOffset, dataSize, totalSamples,
                   channel, channels, lastRead>>

\* line 180
WavReturn ==
    /\ pc = "wav_samples"
    /\ ~Below(i, totalSamples)
    /\ result' = Returned(mergeChannels(channels), sampleRate)
    /\ pc' = "wav_done"
    /\ UNCHANGED <<botVars, buf, call, tried, wavVars>>

decodeWav ==
    \/ WavHeader
    \/ WavChunk
    \/ WavNoData
    \/ WavAlloc
    \/ WavSample
    \/ WavSpin
    \/ WavReturn

----------------------------------------------------------------------------
\* The containers decodeWav is run on.  A container is described by its
\* parts and serialised to bytes; the decoder sees the bytes only.

U16le(n) == <<n % 256, n \div 256>>
U32le(n) == <<n % 256, (n \div 256) % 256, (n \div 65536) % 256, n \div 16777216>>

LIST == <<76, 73, 83, 84>>
RIFX == <<82, 73, 70, 88>>

FmtItem == [id |-> "fmt", len |-> 16]
UnknownItem(n) == [id |-> "unk", len |-> n]

FmtChunk(f) ==
    FMT \o U32le(16) \o U16le(f.audioFormat) \o U16le(f.numChannels)
        \o U32le(f.sampleRate) \o U32le(0) \o U16le(0) \o U16le(f.bitsPerSample)

\* an unknown chunk of n bytes and its padding byte when n is odd; the payload
\* spells the data tag, which a walk that lands inside it would take for a chunk
UnknownChunk(n) ==
    LIST \o U32le(n) \o [k \in 1..(n + (n % 2)) |-> IF k <= n THEN DATA[((k - 1) % 4) + 1] ELSE 0]

ChunkBytes(item, f) == IF item.id = "fmt" THEN FmtChunk(f) ELSE UnknownChunk(item.len)

RECURSIVE LayoutBytes(_, _)
LayoutBytes(layout, f) ==
    IF layout = <<>> THEN <<>>
    ELSE ChunkBytes(Head(layout), f) \o LayoutBytes(Tail(layout), f)

\* the length field of the data chunk
DeclaredBytes(c) ==
    IF c.declared = "max" THEN <<255, 255, 255, 255>>
    ELSE IF c.declared = "over" THEN U32le(Len(c.payload) + 1)
    ELSE IF c.declared = "zero" THEN U32le(0)
    ELSE U32le(Len(c.payload))

DeclaredSize(c) ==
    IF c.declared = "max" THEN Huge
    ELSE IF c.declared = "over" THEN Len(c.payload) + 1
    ELSE IF c.declared = "zero" THEN 0
    ELSE Len(c.payload)

FullBytes(c) ==
    c.riff \o U32le(0) \o c.wave \o LayoutBytes(c.layout, c.fmt)
        \o (IF c.hasData THEN DATA \o DeclaredBytes(c) \o c.payload ELSE <<>>)

\* the container cut to its first c.cut bytes (c.cut = -1: whole)
WavBytes(c) ==
    IF c.cut < 0 THEN FullBytes(c) ELSE SubSeq(FullBytes(c), 1, Min(c.cut, Len(FullBytes(c))))

SeqsUpTo(S, n) == UNION {[1..k -> S] : k \in 0..n}

PayloadBytes == {1, 255}
Payloads == SeqsUpTo(PayloadBytes, MaxData)

BitDepths == {0, 8, 12, 16, 24, 32}

Fmt(a, n, r, b) == [audioFormat |-> a, numChannels |-> n, sampleRate |-> r, bitsPerSample |-> b]

FmtVariants ==
    {Fmt(1, n, 8000, b) : n \in 0..2, b \in BitDepths} \cup {Fmt(3, n, 22050, 32) : n \in 0..2}

FewFmts == {Fmt(1, 1, 8000, 16), Fmt(1, 2, 22050, 8), Fmt(1, 1, 44100, 24), Fmt(1, 1, 8000, 12)}

\* the defaults of lines 112-115, which stand when no fmt chunk is met
DefaultFmt == Fmt(1, 1, 44100, 16)

PreItems == {FmtItem} \cup {UnknownItem(n) : n \in 0..MaxUnknownLen}

HasFmt(layout) == \E k \in 1..Len(layout) : layout[k].id = "fmt"

\* chunk sequences before the data chunk: at most two chunks, at most one fmt
Layouts ==
    {l \in SeqsUpTo(PreItems, 2) :
        Cardinality({k \in 1..Len(l) : l[k].id = "fmt"}) <= 1}

WavCall(riff, wave, layout, f, hasData, declared, payload, cut) ==
    [fn |-> "decodeWav", riff |-> riff, wave |-> wave, layout |-> layout,
     fmt |-> IF HasFmt(layout) THEN f ELSE DefaultFmt,
     hasData |-> hasData, declared |-> declared, payload |-> payload, cut |-> cut]

Canonical == WavCall(RIFF, WAVE, <<FmtItem>>, Fmt(1, 1, 8000, 16), TRUE, "exact", <<1, 255>>, -1)

FullScale == {<<255, 255, 255, 127>>, <<128, 255, 255, 127>>, <<0, 0, 0, 128>>, <<1, 0, 0, 128>>}

WavCalls ==
    \* every encoding, payload and declared length behind a single fmt chunk
    {WavCall(RIFF, WAVE, <<FmtItem>>, f, TRUE, d, p, -1) :
        f \in FmtVariants, d \in {"exact", "over", "max", "zero"}, p \in Payloads}
    \cup
    \* every chunk sequence before the data chunk
    {WavCall(RIFF, WAVE, l, f, TRUE, d, p, -1) :
        l \in Layouts, f \in FewFmts, d \in {"exact", "over"}, p \in Payloads}
    \cup
    \* no data chunk
    {WavCall(RIFF, WAVE, l, f, FALSE, "exact", <<>>, -1) : l \in Layouts, f \in FewFmts}
    \cup
    \* 32-bit samples at and next to full scale
    {WavCall(RIFF, WAVE, <<FmtItem>>, Fmt(1, 1, 8000, 32), TRUE, "exact", p, -1) : p \in FullScale}
    \cup
    \* wrong tags
    {WavCall(r, w, <<FmtItem>>, Fmt(1, 1, 8000, 16), TRUE, "exact", <<1, 255>>, -1) :
        r \in {RIFF, RIFX}, w \in {WAVE, DATA}}
    \cup
    \* a truncated upload
    {[Canonical EXCEPT !.cut = k] : k \in 0..Len(FullBytes(Canonical))}
    \cup
    {[Canonical EXCEPT !.riff = RIFX, !.cut = k] : k \in 0..12}

InitWav ==
    /\ BotIdle
    /\ call \in WavCalls
    /\ buf = WavBytes(call)
    /\ pc = "wav_header"
    /\ offset = 0
    /\ audioFormat = 0
    /\ numChannels = 0
    /\ sampleRate = 0
    /\ bitsPerSample = 0
    /\ dataOffset = 0
    /\ dataSize = 0
    /\ totalSamples = Num(0)
    /\ i = 0
    /\ channel = 0
    /\ channels = <<>>
    /\ lastRead = <<>>
    /\ result = NoResult
    /\ tried = <<>>

SpecWav == InitWav /\ [][decodeWav]_vars

\* decodeWav runs on the event loop's thread without yielding: while a step
\* of it is possible, one is taken
SpecWavLive == SpecWav /\ WF_vars(decodeWav)

----------------------------------------------------------------------------
\* Claims about decodeWav, checked under SpecWav.

Finished == pc \in {"failed", "wav_done"}

HasTags(b) == Len(b) >= 12 /\ Tag(b, 0) = RIFF /\ Tag(b, 8) = WAVE

WavError(m) == [Thrown("Error", m) EXCEPT !.reasons = <<Reason("wav", m)>>]
InvalidHeader == WavError("Invalid WAV header")
DataNotFound == WavError("WAV data chunk not found")
UnsupportedBits == WavError("Unsupported WAV bits per sample")

\* the walk ended at the end of the buffer with no data chunk met
WalkedOff == pc = "failed" /\ HasTags(buf) /\ dataOffset = -1 /\ ~(offset + 8 <= Len(buf))

\* C2: for every byte buffer, decodeWav fails with the format error unless
\* bytes 0-3 are "RIFF" and bytes 8-11 are "WAVE", and fails with the format
\* error when the chunk walk reaches the end of the buffer without a data
\* chunk; no samples are returned in either case.
C2_FormatErrors ==
    /\ (Finished /\ ~HasTags(buf)) => result = InvalidHeader
    /\ (WalkedOff /\ result.name # "RangeError") => result = DataNotFound

\* C3: behind any sequence of well-formed chunks, odd-length unknown chunks
\* with their padding byte included, the payload offset is the first byte
\* after the data chunk's 8-byte header, the format fields are those of the
\* fmt chunk, and the decoded samples are those of the payload alone.
WellFormed(c) == c.riff = RIFF /\ c.wave = WAVE /\ c.hasData /\ c.cut < 0

ExpectedDataOffset(c) == 12 + Len(LayoutBytes(c.layout, c.fmt)) + 8

ExpectedSamples(c) ==
    LET f == c.fmt
        total == TotalSamples(Min(DeclaredSize(c), Len(c.payload)), f.bitsPerSample,
                              f.numChannels)
        size == SampleBytes(f.audioFormat, f.bitsPerSample)
        n == IF total.kind = "num" THEN total.n ELSE 0
    IN  mergeChannels([ch \in 1..f.numChannels |->
            [k \in 1..n |->
                ToFloat32(SampleValue(c.payload, ((k - 1) * f.numChannels + (ch - 1)) * size,
                                      f.audioFormat, f.bitsPerSample))]])

C3_UnknownChunksSkipped ==
    WellFormed(call) =>
        /\ pc \in {"wav_alloc", "wav_samples", "wav_done", "failed"} =>
               /\ dataOffset = ExpectedDataOffset(call)
               /\ Fmt(audioFormat, numChannels, sampleRate, bitsPerSample) = call.fmt
        /\ pc = "wav_done" => result.samples = ExpectedSamples(call)

C3_Witness ==
    /\ pc = "wav_done"
    /\ WellFormed(call)
    /\ \E k \in 1..Len(call.layout) : call.layout[k].id = "unk" /\ call.layout[k].len % 2 = 1
    /\ Len(result.samples) > 0

\* C21: decodeWav terminates, returning samples or raising an error, for
\* every finite byte buffer whatever its header fields hold, a channel count
\* of 0 or a bits-per-sample of 0 included: the chunk walk strictly advances
\* the offset on every iteration and the sample loop runs a finite number of
\* times.
C21_Terminates == <>Finished

\* C17: for integer encodings each decoded sample equals the little-endian
\* two's-complement value of its bytes divided by 2^(bits - 1) (16-bit
\* / 32768, 24-bit / 8388608, 32-bit / 2147483648); hence every decoded
\* integer sample lies in [-1, 1) and a 16-bit sample s decodes to exactly
\* s / 32768.
IntegerEncoding == ~(audioFormat = 3 /\ bitsPerSample = 32) /\ bitsPerSample \in {16, 24, 32}

\* the two's-complement value of the n little-endian bytes at off
RECURSIVE TwosComplement(_, _, _)
TwosComplement(b, off, n) ==
    IF n = 1 THEN (IF b[off + 1] >= 128 THEN b[off + 1] - 256 ELSE b[off + 1])
    ELSE b[off + 1] + 256 * TwosComplement(b, off + 1, n - 1)

\* where the k-th sample of a channel lies in the buffer
SampleOffset(ch, k) == dataOffset + ((k - 1) * numChannels + (ch - 1)) * (bitsPerSample \div 8)

DecodedSamples == {<<ch, k>> \in (1..Len(channels)) \X (1..MaxData) : k <= Len(channels[ch])}

TwosValue(ch, k) == TwosComplement(buf, SampleOffset(ch, k), bitsPerSample \div 8)

\* sample.num / 2^sample.exp = value / 2^(bitsPerSample - 1)
EqualsScaled(sample, value) ==
    /\ sample.kind = "int"
    /\ sample.exp <= bitsPerSample - 1
    /\ sample.exp >= bitsPerSample - 8
    /\ value % Pow2(bitsPerSample - 1 - sample.exp) = 0
    /\ value \div Pow2(bitsPerSample - 1 - sample.exp) = sample.num

RECURSIVE TwoTo(_)
TwoTo(e) == IF e = 0 THEN 1 ELSE 2 * TwoTo(e - 1)

\* -1 <= sample < 1; a numerator over 2^31 is a 32-bit integer and within
BelowOne(sample) ==
    sample.exp >= 31 \/ (sample.num >= -TwoTo(sample.exp) /\ sample.num < TwoTo(sample.exp))

C17_IntegerSamplesExact ==
    (pc \in {"wav_samples", "wav_done"} /\ IntegerEncoding) =>
        \A d \in DecodedSamples :
            /\ EqualsScaled(channels[d[1]][d[2]], TwosValue(d[1], d[2]))
            /\ BelowOne(channels[d[1]][d[2]])

\* sample is the float32 nearest to value / 2^(bitsPerSample - 1): at most 24
\* significant bits, no more dropped than needed, ties to the even neighbour
NearestFloat32(sample, value) ==
    /\ sample.kind = "int"
    /\ sample.exp <= bitsPerSample - 1
    /\ sample.exp >= bitsPerSample - 8
    /\ sample.num >= -16777216 /\ sample.num <= 16777216
    /\ LET p == Pow2(bitsPerSample - 1 - sample.exp)
           q == value \div p
           rem == value % p
       IN  IF p = 1 THEN sample.num = value
           ELSE /\ value >= 16777216 * (p \div 2) \/ value < -16777216 * (p \div 2)
                /\ \/ sample.num = q /\ (2 * rem < p \/ (2 * rem = p /\ q % 2 = 0))
                   \/ sample.num = q + 1 /\ (2 * rem > p \/ (2 * rem = p /\ q % 2 = 1))

\* amended: 16- and 24-bit samples are exact and in [-1, 1); a 32-bit sample
\* is the float32 nearest to value / 2147483648, which lies in [-1, 1]
C17_IntegerSamplesAsFloat32 ==
    (pc \in {"wav_samples", "wav_done"} /\ IntegerEncoding) =>
        \A d \in DecodedSamples :
            LET sample == channels[d[1]][d[2]]
                value == TwosValue(d[1], d[2])
            IN  IF bitsPerSample = 32
                THEN /\ NearestFloat32(sample, value)
                     /\ sample.num >= -TwoTo(Min(sample.exp, 30))
                     /\ sample.exp < 31 => sample.num <= TwoTo(sample.exp)
                ELSE EqualsScaled(sample, value) /\ sample.exp = bitsPerSample - 1
                     /\ BelowOne(sample)

\* the 32-bit sample 2147483647 was decoded, to 1
C17_Witness ==
    /\ pc = "wav_done"
    /\ IntegerEncoding
    /\ bitsPerSample = 32
    /\ \E d \in DecodedSamples :
           /\ TwosValue(d[1], d[2]) = 2147483647
           /\ channels[d[1]][d[2]] = IntSample(16777216, 24)

\* C4: on the data chunk the walk stops, and the payload length is clamped to
\* the bytes present, so every sample read lies inside the buffer whatever
\* length the chunk declares.
C4_ReadsInsideBuffer ==
    /\ pc \in {"wav_alloc", "wav_samples", "wav_done"} =>
           /\ offset = dataOffset - 8
           /\ Tag(buf, offset) = DATA
    /\ lastRead # <<>> => lastRead[1] >= dataOffset /\ lastRead[1] + lastRead[2] <= Len(buf)
    /\ pc \in {"wav_samples", "wav_done"} /\ totalSamples.kind = "num" =>
           totalSamples.n * numChannels * SampleBytes(audioFormat, bitsPerSample)
               <= Len(buf) - dataOffset

C4_Witness ==
    /\ pc = "wav_done"
    /\ dataSize > Len(buf) - dataOffset
    /\ lastRead # <<>>
    /\ lastRead[1] + lastRead[2] = Len(buf)

\* C5: with valid tags, a data chunk and a fmt chunk declaring a bit depth
\* other than 8, 16, 24 or 32, decodeWav fails with the unsupported-format
\* error and returns no samples.
C5_UnsupportedDepthFails ==
    (/\ Finished
     /\ HasTags(buf)
     /\ HasFmt(call.layout)
     /\ dataOffset >= 0
     /\ bitsPerSample \notin {8, 16, 24, 32}) => result = UnsupportedBits

----------------------------------------------------------------------------
\* maybeResample and clipDuration

\* longest buffer handed to maybeResample on its own
MaxLen == 5

Rates == {8000, 11025, 22050, 44100, 48000}

\* an output length that keeps the floor and drops the floor of one sample
OutLengthFloor(n, rate, targetRate) == (n * targetRate) \div rate

\* Math.max(1, Math.floor(samples.length * ratio)), ratio = targetRate / sampleRate
OutLength(n, rate, targetRate) == Max(1, (n * targetRate) \div rate)

\* out[k] of the interpolation loop (k from 0): srcPos = k / ratio
Interpolated(samples, rate, targetRate, k) ==
    LET left == (k * rate) \div targetRate
        right == Min(Len(samples) - 1, left + 1)
        fracNum == (k * rate) % targetRate
    IN  IF fracNum = 0 THEN samples[left + 1]
        ELSE LerpSample(samples[left + 1], samples[right + 1], fracNum, targetRate)

maybeResample(samples, rate, targetRate) ==
    IF Len(samples) = 0 \/ rate = targetRate THEN Returned(samples, rate)
    ELSE IF rate = 0 THEN Thrown("RangeError", "Invalid typed array length")
    ELSE Returned([k \in 1..OutLength(Len(samples), rate, targetRate) |->
                      Interpolated(samples, rate, targetRate, k - 1)],
                  targetRate)

\* maxSeconds is the rational s.num / s.den
clipDuration(samples, rate, s) ==
    LET maxSamples == (rate * s.num) \div s.den
    IN  IF Len(samples) <= maxSamples THEN samples ELSE SubSeq(samples, 1, maxSamples)

----------------------------------------------------------------------------
\* decodeAudioFile

Mimes == {"", "audio/wav", "audio/mpeg", "audio/mp3", "audio/ogg", "audio/opus", "video/mp4"}
Exts == {"", "wav", "mp3", "ogg", "opus", "oga"}

\* mime.includes(word), for the mime types of the model
MimeIncludes(mime, word) ==
    <<mime, word>> \in {<<"audio/wav", "wav">>, <<"audio/mpeg", "mpeg">>, <<"audio/mp3", "mp3">>,
                        <<"audio/ogg", "ogg">>, <<"audio/opus", "opus">>}

\* lines 283-291: the decoder the declared type selects
Route(mime, ext) ==
    IF MimeIncludes(mime, "wav") \/ ext = "wav" THEN "wav"
    ELSE IF MimeIncludes(mime, "mpeg") \/ MimeIncludes(mime, "mp3") \/ ext = "mp3" THEN "mp3"
    ELSE IF MimeIncludes(mime, "ogg") \/ MimeIncludes(mime, "opus") \/ ext = "ogg" \/ ext = "opus"
         THEN "ogg"
    ELSE IF ext = "wav" THEN "wav"
    ELSE "fallback"

\* What a decoding library answers: audio, nothing, or an error.
LibSamples(n, base) == [k \in 1..n |-> IntSample(base + k, 15)]
LibAudio ==
    {[channelData |-> <<LibSamples(3, 0)>>, sampleRate |-> 48000],
     [channelData |-> <<LibSamples(2, 0), LibSamples(2, 10)>>, sampleRate |-> 22050]}
LibAnswers ==
    {[kind |-> "audio", audio |-> a] : a \in LibAudio}
    \cup {[kind |-> k, audio |-> [channelData |-> <<>>, sampleRate |-> 0]] : k \in {"empty", "throws"}}

Fallback == pc \in {"fb_ogg_opus", "fb_ogg_vorbis", "fb_mp3"}

\* a decoder returned audio: lines 226, 248, 271
Decoded(a) ==
    /\ result' = Returned(mergeChannels(a.channelData), a.sampleRate)
    /\ pc' = "decoded"
    /\ UNCHANGED <<botVars, buf, call, tried, wavVars>>

\* a decoder threw: the error leaves decodeAudioFile, or the fallback chain
\* catches it, drops it and moves on to next
Failed(err, codec, next) ==
    IF Fallback
    THEN /\ pc' = next
         /\ tried' = Append(tried, codec)
         /\ UNCHANGED <<botVars, buf, call, result, wavVars>>
    ELSE /\ pc' = "failed"
         /\ result' = err
         /\ tried' = Append(tried, codec)
         /\ UNCHANGED <<botVars, buf, call, wavVars>>

OggOpusError(opus) ==
    [Thrown("Error", "Failed to decode OGG Opus (opus=" \o opus \o ")")
        EXCEPT !.reasons = <<Reason("opus", opus)>>]

OggError(opus, vorbis) ==
    [Thrown("Error", "Failed to decode OGG (opus=" \o opus \o "; vorbis=" \o vorbis \o ")")
        EXCEPT !.reasons = <<Reason("opus", opus), Reason("vorbis", vorbis)>>]

Mp3Error(m) == [Thrown("Error", m) EXCEPT !.reasons = <<Reason("mp3", m)>>]

\* lines 274-301: the branch taken
AudioStart ==
    /\ pc = "start"
    /\ pc' = LET r == Route(call.mime, call.ext)
             IN  IF r = "wav" THEN "wav_header"
                 ELSE IF r = "mp3" THEN "mp3"
                 ELSE IF r = "ogg" THEN "ogg_opus"
                 ELSE "fb_ogg_opus"
    /\ UNCHANGED <<botVars, buf, call, tried, result, wavVars>>

\* decodeOgg, lines 216-235
DecodeOggOpus ==
    /\ pc \in {"ogg_opus", "fb_ogg_opus"}
    /\ \E answer \in LibAnswers :
        LET opusErrorMessage ==
                IF answer.kind = "empty" THEN "decoded_empty" ELSE "ogg_opus_decode_timeout"
        IN  IF answer.kind = "audio" THEN Decoded(answer.audio)
            ELSE IF call.preferOpusOnly
            THEN Failed(OggOpusError(opusErrorMessage), Reason("opus", opusErrorMessage), "fb_mp3")
            ELSE /\ pc' = IF Fallback THEN "fb_ogg_vorbis" ELSE "ogg_vorbis"
                 /\ tried' = Append(tried, Reason("opus", opusErrorMessage))
                 /\ UNCHANGED <<botVars, buf, call, result, wavVars>>

\* decodeOgg, lines 237-254
DecodeOggVorbis ==
    /\ pc \in {"ogg_vorbis", "fb_ogg_vorbis"}
    /\ \E answer \in LibAnswers :
        LET opusErrorMessage == tried[Len(tried)].reason
            vorbisErrorMessage ==
                IF answer.kind = "empty" THEN "decoded_empty" ELSE "ogg_vorbis_decode_timeout"
        IN  IF answer.kind = "audio" THEN Decoded(answer.audio)
            ELSE Failed(OggError(opusErrorMessage, vorbisErrorMessage),
                        Reason("vorbis", vorbisErrorMessage), "fb_mp3")

\* decodeMp3, lines 257-272
DecodeMp3 ==
    /\ pc \in {"mp3", "fb_mp3"}
    /\ \E answer \in LibAnswers :
        LET message ==
                IF answer.kind = "empty" THEN "Failed to decode MP3" ELSE "mp3_decode_timeout"
        IN  IF answer.kind = "audio" THEN Decoded(answer.audio)
            ELSE Failed(Mp3Error(message), Reason("mp3", message), "wav_header")

\* lines 303-310: resample to 22050 Hz and clip
AudioFinish ==
    /\ pc \in {"decoded", "wav_done"}
    /\ LET resampled == maybeResample(result.samples, result.sampleRate, 22050)
       IN  IF resampled.kind = "error"
           THEN result' = resampled /\ pc' = "failed"
           ELSE /\ result' = Returned(clipDuration(resampled.samples, resampled.sampleRate,
                                                  call.maxSeconds),
                                      resampled.sampleRate)
                /\ pc' = "done"
    /\ UNCHANGED <<botVars, buf, call, tried, wavVars>>

decodeAudioFile ==
    \/ AudioStart
    \/ DecodeOggOpus
    \/ DecodeOggVorbis
    \/ DecodeMp3
    \/ decodeWav
    \/ AudioFinish

\* the uploads of the model: a few containers under every declared type
Uploads ==
    {Canonical,
     [Canonical EXCEPT !.cut = 8],
     [Canonical EXCEPT !.riff = RIFX],
     [Canonical EXCEPT !.hasData = FALSE],
     [Canonical EXCEPT !.payload = <<>>],
     [Canonical EXCEPT !.payload = <<1, 255, 255, 1>>, !.fmt = Fmt(1, 2, 22050, 8)],
     [Canonical EXCEPT !.payload = <<>>, !.fmt = Fmt(1, 1, 22050, 16)],
     [Canonical EXCEPT !.payload = <<1, 255, 1>>, !.fmt = Fmt(1, 1, 44100, 24)],
     [Canonical EXCEPT !.payload = <<1, 255, 1>>, !.fmt = Fmt(1, 1, 8000, 12)],
     [Canonical EXCEPT !.payload = <<1, 255, 1>>, !.fmt = Fmt(1, 0, 8000, 16)],
     [Canonical EXCEPT !.fmt = Fmt(1, 1, 0, 16)]}

Seconds(n, d) == [num |-> n, den |-> d]

AudioCalls ==
    {[fn |-> "decodeAudioFile", mime |-> m, ext |-> e, preferOpusOnly |-> o,
      maxSeconds |-> s, upload |-> u] :
        m \in Mimes, e \in Exts, o \in BOOLEAN,
        s \in {Seconds(30, 1), Seconds(1, 11025), Seconds(0, 1)}, u \in Uploads}

Init ==
    /\ BotIdle
    /\ call \in AudioCalls
    /\ buf = WavBytes(call.upload)
    /\ pc = "start"
    /\ offset = 0
    /\ audioFormat = 0
    /\ numChannels = 0
    /\ sampleRate = 0
    /\ bitsPerSample = 0
    /\ dataOffset = 0
    /\ dataSize = 0
    /\ totalSamples = Num(0)
    /\ i = 0
    /\ channel = 0
    /\ channels = <<>>
    /\ lastRead = <<>>
    /\ result = NoResult
    /\ tried = <<>>

Next == decodeAudioFile

Spec == Init /\ [][Next]_vars

----------------------------------------------------------------------------
\* Claims about decodeAudioFile, checked under Spec.

Unknown == Route(call.mime, call.ext) = "fallback"

Codecs(rs) == {rs[k].codec : k \in 1..Len(rs)}

\* every codec of the fallback chain was tried and failed
AllFailed ==
    /\ Unknown
    /\ pc = "failed"
    /\ "wav" \in Codecs(result.reasons)

\* C1: when the declared type matches no codec the decoders are tried in the
\* order Ogg, MPEG, WAV, the first success is returned, and if all three fail
\* the error surfaced names the failure reason of every codec attempted.
C1_FallbackOrderAndCombinedError ==
    Unknown =>
        /\ pc \in {"fb_mp3", "wav_header", "wav_walk", "wav_alloc", "wav_samples", "wav_done"} =>
               "opus" \in Codecs(tried)
        /\ pc \in {"wav_header", "wav_walk", "wav_alloc", "wav_samples", "wav_done"} =>
               /\ Len(tried) >= 2
               /\ tried[1].codec = "opus"
               /\ tried[Len(tried)].codec = "mp3"
        /\ pc = "decoded" => Len(tried) <= 2 /\ "mp3" \notin Codecs(tried)
        /\ AllFailed =>
               \A k \in 1..Len(tried) :
                   \E j \in 1..Len(result.reasons) : result.reasons[j] = tried[k]

----------------------------------------------------------------------------
\* The DSP functions are pure: a call takes its arguments in call and leaves
\* its return value in result.  The decoder's variables stay idle.

Idle ==
    /\ BotIdle
    /\ buf = <<>>
    /\ offset = 0
    /\ audioFormat = 0
    /\ numChannels = 0
    /\ sampleRate = 0
    /\ bitsPerSample = 0
    /\ dataOffset = 0
    /\ dataSize = 0
    /\ totalSamples = Num(0)
    /\ i = 0
    /\ channel = 0
    /\ channels = <<>>
    /\ lastRead = <<>>
    /\ tried = <<>>

\* C18: every successful decodeAudioFile call returns a buffer tagged with
\* the canonical sample rate 22050 Hz, whatever the source rate of the
\* decoded audio and whatever its length, an empty payload included.
C18_CanonicalRate == pc = "done" => result.sampleRate = 22050

----------------------------------------------------------------------------
\* maybeResample on its own

ResampleCalls ==
    {[fn |-> "maybeResample", samples |-> LibSamples(n, 0), sampleRate |-> S, targetRate |-> R] :
        n \in 0..MaxLen, S \in Rates, R \in Rates}

InitResample == call \in ResampleCalls /\ pc = "call" /\ result = NoResult /\ Idle

Resample ==
    /\ pc = "call"
    /\ result' = maybeResample(call.samples, call.sampleRate, call.targetRate)
    /\ pc' = "returned"
    /\ UNCHANGED <<botVars, buf, call, tried, wavVars>>

SpecResample == InitResample /\ [][Resample]_vars

----------------------------------------------------------------------------
\* detectPitch.  Samples are integers, in units of one quantisation step; the
\* arithmetic is exact.  A correlation score corr / sqrt(energy1 * energy2)
\* is kept as the pair <<corr, energy1 * energy2>>; dividing every sample by
\* the peak (normalize) scales corr, energy1 and energy2 alike and leaves the
\* score as it is.

\* longest signal of the exhaustive family
MaxPitchLen == 4
\* largest sample magnitude of the exhaustive family
MaxAmp == 1

Abs(x) == IF x < 0 THEN -x ELSE x

RECURSIVE MaxAbs(_, _, _)
MaxAbs(s, lo, hi) ==
    IF lo > hi THEN 0
    ELSE IF lo = hi THEN Abs(s[lo])
    ELSE LET mid == (lo + hi) \div 2 IN Max(MaxAbs(s, lo, mid), MaxAbs(s, mid + 1, hi))

\* sum of s[k] * s[k + lag] for k in lo..hi
RECURSIVE SumProd(_, _, _, _)
SumProd(s, lag, lo, hi) ==
    IF lo > hi THEN 0
    ELSE IF lo = hi THEN s[lo] * s[lo + lag]
    ELSE LET mid == (lo + hi) \div 2
         IN  SumProd(s, lag, lo, mid) + SumProd(s, lag, mid + 1, hi)

\* a / b > c / d for a, c >= 0 and b, d > 0, without forming a * d
RECURSIVE FracGreater(_, _, _, _)
FracGreater(a, b, c, d) ==
    IF a \div b # c \div d THEN a \div b > c \div d
    ELSE IF a % b = 0 THEN FALSE
    ELSE IF c % d = 0 THEN TRUE
    ELSE FracGreater(d, c % d, b, a % b)

\* a silence test that rejects the all-zero signal only
SilentIfZero(s) == MaxAbs(s, 1, Len(s)) <= 0

\* rms(normalize(samples)) < 0.01: sum / (peak^2 * n) < 1 / 10000
Silent(s) ==
    LET peak == MaxAbs(s, 1, Len(s))
        sum == SumProd(s, 0, 1, Len(s))
    IN  IF peak <= 0 THEN TRUE
        ELSE FracGreater(1, 10000, sum, peak * peak * Len(s))

minLag(rate) == rate \div 2093
maxLag(rate) == (rate * 100) \div 6541

NoScore == [lag |-> -1, corr |-> 0, denom2 |-> 1]

\* the score of one lag, lines 42-56; denom2 = 0 when the lag is skipped
ScoreAt(s, lag) ==
    LET limit == Len(s) - lag
    IN  [lag |-> lag,
         corr |-> SumProd(s, lag, 1, limit),
         denom2 |-> SumProd(s, 0, 1, limit) * SumProd(s, 0, 1 + lag, Len(s))]

\* a comparison that lets a later lag of equal score replace the earlier one
BetterOrEqual(score, best) ==
    /\ score.denom2 # 0
    /\ score.corr > 0
    /\ ~FracGreater(best.corr * best.corr, best.denom2, score.corr * score.corr, score.denom2)

\* score > bestCorr, line 58
Better(score, best) ==
    /\ score.denom2 # 0
    /\ score.corr > 0
    /\ FracGreater(score.corr * score.corr, score.denom2, best.corr * best.corr, best.denom2)

\* the lag loop, lines 41-62, over the lags lo..hi in ascending order: the
\* first lag whose score is positive and exceeds that of every earlier lag
RECURSIVE BestLag(_, _, _)
BestLag(s, lo, hi) ==
    IF lo > hi THEN NoScore
    ELSE IF lo = hi
    THEN LET score == ScoreAt(s, lo) IN IF Better(score, NoScore) THEN score ELSE NoScore
    ELSE LET earlier == BestLag(s, lo, (lo + hi) \div 2)
             later == BestLag(s, (lo + hi) \div 2 + 1, hi)
         IN  IF Better(later, earlier) THEN later ELSE earlier

\* bestCorr < 0.35, line 64
Weak(best) == FracGreater(49, 400, best.corr * best.corr, best.denom2)

NoPitch == [kind |-> "null", sampleRate |-> 0, lag |-> 0]
Pitch(rate, lag) == [kind |-> "frequency", sampleRate |-> rate, lag |-> lag]

detectPitch(samples, rate) ==
    IF Len(samples) = 0 \/ rate <= 0 THEN NoPitch
    ELSE IF Silent(samples) THEN NoPitch
    ELSE LET best == BestLag(samples, minLag(rate), maxLag(rate))
         IN  IF best.lag <= 0 \/ Weak(best) THEN NoPitch
             ELSE Pitch(rate, best.lag)

\* A sine of period periodNum / periodDen samples, sampled as 8-bit PCM at
\* amplitude 60: round(60 * sin(2 * pi * k * periodDen / periodNum)) for
\* k = 0 .. periodNum - 1, repeated.
SineTable(periodNum, periodDen) ==
    IF periodNum = 4 /\ periodDen = 1 THEN <<0, 60, 0, -60>>
    ELSE IF periodNum = 5 /\ periodDen = 1 THEN <<0, 57, 35, -35, -57>>
    ELSE IF periodNum = 5 /\ periodDen = 2 THEN <<0, 35, -57, 57, -35>>
    ELSE IF periodNum = 6 /\ periodDen = 1 THEN <<0, 52, 52, 0, -52, -52>>
    ELSE <<0, 47, 58, 26, -26, -58, -47>>

Sine(periodNum, periodDen, n) ==
    [k \in 1..n |-> SineTable(periodNum, periodDen)[((k - 1) % periodNum) + 1]]

\* two clicks one sample apart, followed by silence
Clicks(n) == [k \in 1..n |-> IF k <= 2 THEN 1 ELSE 0]

PitchRates == {-1, 0, 1000, 2093, 4186, 8000, 22050}

NoSine == [periodNum |-> 0, periodDen |-> 1]

PitchCall(s, r, sine) == [fn |-> "detectPitch", samples |-> s, sampleRate |-> r, sine |-> sine]

\* sines of frequency sampleRate * periodDen / periodNum, all within 65.41 .. 2093 Hz
SineCalls ==
    {PitchCall(Sine(4, 1, n), 8000, [periodNum |-> 4, periodDen |-> 1]) : n \in {8, 12}}
    \cup {PitchCall(Sine(5, 1, n), 8000, [periodNum |-> 5, periodDen |-> 1]) : n \in {10, 12}}
    \cup {PitchCall(Sine(6, 1, n), 8000, [periodNum |-> 6, periodDen |-> 1]) : n \in {12}}
    \cup {PitchCall(Sine(7, 1, n), 8000, [periodNum |-> 7, periodDen |-> 1]) : n \in {14}}
    \cup {PitchCall(Sine(5, 2, n), 5000, [periodNum |-> 5, periodDen |-> 2]) : n \in {10, 12}}

PitchCalls ==
    {PitchCall(s, r, NoSine) :
        s \in SeqsUpTo(-MaxAmp..MaxAmp, MaxPitchLen), r \in PitchRates}
    \cup {PitchCall(Clicks(n), 2093, NoSine) : n \in {19999, 20001}}
    \cup SineCalls

InitPitch == call \in PitchCalls /\ pc = "call" /\ result = NoPitch /\ Idle

DetectPitch ==
    /\ pc = "call"
    /\ result' = detectPitch(call.samples, call.sampleRate)
    /\ pc' = "returned"
    /\ UNCHANGED <<botVars, buf, call, tried, wavVars>>

SpecPitch == InitPitch /\ [][DetectPitch]_vars

\* C7: detectPitch returns no pitch, and raises nothing, for an input that
\* is empty, has sample rate <= 0, is all zeros, or whose peak-normalized RMS
\* is below 0.01.
AllZero(s) == \A k \in 1..Len(s) : s[k] = 0

SumSquares(s) == SumProd(s, 0, 1, Len(s))

\* sqrt(sum / (peak^2 * n)) < 1 / 100
RmsBelowThreshold(s) ==
    /\ ~AllZero(s)
    /\ FracGreater(1, 10000, SumSquares(s), MaxAbs(s, 1, Len(s)) * MaxAbs(s, 1, Len(s)) * Len(s))

C7_RejectsSilence ==
    (/\ pc = "returned"
     /\ \/ Len(call.samples) = 0
        \/ call.sampleRate <= 0
        \/ AllZero(call.samples)
        \/ RmsBelowThreshold(call.samples)) => result = NoPitch

C7_Witness ==
    /\ pc = "returned"
    /\ call.sampleRate > 0
    /\ RmsBelowThreshold(call.samples)
    /\ result = NoPitch

\* C8: for a pure sine of frequency f in [65.41, 2093.0] Hz sampled at a rate
\* of at least 2 * 2093.0 Hz, detectPitch returns sampleRate / lag for an
\* integer lag adjacent to the period sampleRate / f, not one near a multiple
\* of the period.
C8_SineWithinOneLag ==
    (pc = "returned" /\ call.sine # NoSine) =>
        /\ result.kind = "frequency"
        /\ result.lag * call.sine.periodDen >= call.sine.periodNum - call.sine.periodDen
        /\ result.lag * call.sine.periodDen <= call.sine.periodNum + call.sine.periodDen

\* C16: whenever detectPitch returns a frequency it is sampleRate / L for an
\* integer lag L with max(1, floor(sampleRate / 2093.0)) <= L <=
\* floor(sampleRate / 65.41) that has the highest normalized autocorrelation
\* score among the lags of [minLag, maxLag] with a non-zero denominator (the
\* smallest such lag when scores tie) and a score >= 0.35; in every other
\* case it returns no pitch.
LagScore(lag) == ScoreAt(call.samples, lag)

Lags == (call.sampleRate \div 2093)..((call.sampleRate * 100) \div 6541)

\* x.corr / sqrt(x.denom2) > y.corr / sqrt(y.denom2), for non-zero denominators
ScoreExceeds(x, y) ==
    IF x.corr > 0 /\ y.corr > 0
    THEN FracGreater(x.corr * x.corr, x.denom2, y.corr * y.corr, y.denom2)
    ELSE IF x.corr > 0 THEN TRUE
    ELSE IF y.corr > 0 THEN FALSE
    ELSE FracGreater(y.corr * y.corr, y.denom2, x.corr * x.corr, x.denom2)

\* score >= 0.35 = 7 / 20
AtLeastThreshold(x) == x.corr > 0 /\ ~FracGreater(49, 400, x.corr * x.corr, x.denom2)

Qualifies(L) ==
    /\ L \in Lags
    /\ L >= 1
    /\ LagScore(L).denom2 # 0
    /\ AtLeastThreshold(LagScore(L))
    /\ \A M \in Lags :
           (M # L /\ LagScore(M).denom2 # 0) =>
               IF M < L THEN ScoreExceeds(LagScore(L), LagScore(M))
               ELSE ~ScoreExceeds(LagScore(M), LagScore(L))

Audible ==
    /\ Len(call.samples) > 0
    /\ call.sampleRate > 0
    /\ ~AllZero(call.samples)
    /\ ~RmsBelowThreshold(call.samples)

C16_BestLagOrNothing ==
    pc = "returned" =>
        /\ result.kind = "frequency" =>
               (result.sampleRate = call.sampleRate /\ Qualifies(result.lag))
        /\ (result = NoPitch /\ Audible) => \A L \in Lags : ~Qualifies(L)

\* a frequency was returned for the smaller of two lags of equal score
C16_Witness ==
    /\ pc = "returned"
    /\ result.kind = "frequency"
    /\ \E M \in Lags :
           /\ M > result.lag
           /\ LagScore(M).denom2 # 0
           /\ ~ScoreExceeds(LagScore(M), LagScore(result.lag))
           /\ ~ScoreExceeds(LagScore(result.lag), LagScore(M))

-----------------------------------------------------------------------------
\* hzToNote (src/music.js lines 68-80)
\*
\* A positive frequency is given by its pitch in cents above MIDI note 0:
\* Hz(c) stands for 440 * 2^((c - 6900) / 1200), so that midiNum = c / 100.
\* Every positive frequency has one such pitch; the calls below take the
\* integer ones.  The other arguments are the values that line 69 rejects.

MaxDetune == 60

NOTE_NAMES == <<"C", "C#", "D", "D#", "E", "F", "F#", "G", "G#", "A", "A#", "B">>

Hz(c) == [kind |-> "hz", cents |-> c]
NotAPitch == {[kind |-> k, cents |-> 0] : k \in {"zero", "negative", "NaN", "undefined"}}

\* the remainder operator of the language: the sign of the dividend
JsRem(a, b) == IF a >= 0 THEN a % b ELSE -((-a) % b)

\* a rounding that sends halves down
RoundHalfDown(x) == -((50 - x) \div 100)

\* Math.round of x / 100: halves go up
Round(x) == (x + 50) \div 100

NoNote == [noteName |-> "null", octave |-> 0, centsOff |-> 0, targetFreq |-> Hz(0), present |-> FALSE]

hzToNote(freq) ==
    IF freq.kind # "hz" THEN NoNote
    ELSE LET nearestMidi == Round(freq.cents)
         IN  [noteName |-> NOTE_NAMES[JsRem(JsRem(nearestMidi, 12) + 12, 12) + 1],
              octave |-> (nearestMidi \div 12) - 1,
              centsOff |-> freq.cents - nearestMidi * 100,
              targetFreq |-> Hz(nearestMidi * 100),
              present |-> TRUE]

\* notes around MIDI 0, below it, and around C4, A4 and G9
NoteBases == {-13, -1, 0, 60, 69, 127}

NoteCalls ==
    {[fn |-> "hzToNote", freq |-> Hz(m * 100 + d)] : m \in NoteBases, d \in -MaxDetune..MaxDetune}
    \cup {[fn |-> "hzToNote", freq |-> f] : f \in NotAPitch}

InitNote == call \in NoteCalls /\ pc = "call" /\ result = NoNote /\ Idle

HzToNote ==
    /\ pc = "call"
    /\ result' = hzToNote(call.freq)
    /\ pc' = "returned"
    /\ UNCHANGED <<botVars, buf, call, tried, wavVars>>

SpecNote == InitNote /\ [][HzToNote]_vars

Halfway(c) == c % 100 = 50

\* C9 as stated: for every frequency f > 0, centsOff = (midi - round(midi)) * 100
\* lies in (-50, 50], and a frequency exactly halfway between two semitones
\* maps to +50, never to -50.
C9_HalfwayIsPlusFifty ==
    (pc = "returned" /\ call.freq.kind = "hz") =>
        /\ result.centsOff > -50
        /\ result.centsOff <= 50
        /\ Halfway(call.freq.cents) => result.centsOff = 50

\* C9 as the code has it: for every frequency f > 0, centsOff is the distance
\* in cents from the returned note up to f, it lies in [-50, 50), positive
\* when f is sharp of the returned note and negative when flat, and a
\* frequency exactly halfway between two semitones is reported against the
\* upper one with -50, never with +50.
C9_HalfwayIsMinusFifty ==
    (pc = "returned" /\ call.freq.kind = "hz") =>
        /\ result.present
        /\ result.targetFreq.cents % 100 = 0
        /\ result.centsOff = call.freq.cents - result.targetFreq.cents
        /\ result.centsOff >= -50
        /\ result.centsOff < 50
        /\ Halfway(call.freq.cents) => result.centsOff = -50

C9_Witness ==
    /\ pc = "returned"
    /\ call.freq.kind = "hz"
    /\ Halfway(call.freq.cents)
    /\ result.centsOff = -50

-----------------------------------------------------------------------------
\* estimateChroma and detectKey (src/music.js lines 82-162)
\*
\* A signal is given by its length and by the tones it contains, a tone being
\* a pitch class 0..11 in an octave 2..6.  The resonator of pitchClassEnergy
\* is idealised: over a frame it yields 1 when the signal contains the tone
\* it is tuned to and 0 otherwise; on silence (no tones) the recurrence of
\* lines 88-92 stays at 0 and the energy of line 94 is 0 exactly.  A signal
\* may also hold samples that are not finite (NaN or an infinity, which a
\* float WAV payload can carry): the recurrence then ends in NaN, or in
\* infinities whose normalisation is NaN, for every resonator that runs.

MaxTones == 3

MAJOR_TEMPLATE == <<1, 0, 1, 0, 1, 1, 0, 1, 0, 1, 0, 1>>
MINOR_TEMPLATE == <<1, 0, 1, 1, 0, 1, 0, 1, 1, 0, 1, 0>>

Tone(pitchClass, octave) == <<pitchClass, octave>>

\* 440 * 2^((midi - 69) / 12) for octave 6 (midi 84..95), in thousandths of a Hz
Octave6 ==
    <<1046502, 1108731, 1174659, 1244508, 1318510, 1396913,
      1479978, 1567982, 1661219, 1760000, 1864655, 1975533>>

\* line 111: freq < 40 || freq > sampleRate / 2 - 100, with
\* freq = Octave6[pitchClass] / 2^(6 - octave) thousandths of a Hz
Skipped(pitchClass, octave, rate) ==
    \/ Octave6[pitchClass + 1] < 40000 * Pow2(6 - octave)
    \/ 2 * Octave6[pitchClass + 1] > (rate - 200) * 1000 * Pow2(6 - octave)

pitchClassEnergy(tones, pitchClass, octave) ==
    IF Tone(pitchClass, octave) \in tones THEN 1 ELSE 0

\* the octave loop, lines 107-113
Acc(tones, rate, pitchClass) ==
    Cardinality({octave \in 2..6 :
        /\ ~Skipped(pitchClass, octave, rate)
        /\ pitchClassEnergy(tones, pitchClass, octave) = 1})

ZeroChroma == [j \in 0..11 |-> 0]

RECURSIVE SumSquaresUpTo(_, _)
SumSquaresUpTo(v, j) == IF j < 0 THEN 0 ELSE v[j] * v[j] + SumSquaresUpTo(v, j - 1)

\* The chroma vector before division by its norm, and the square of that
\* norm: component j of the returned vector is raw[j] / sqrt(norm2) when
\* norm2 > 0 and raw[j] = 0 otherwise.
\* nan tells that some component is NaN.
Chroma(raw, nan) == [raw |-> raw, norm2 |-> SumSquaresUpTo(raw, 11), nan |-> nan]

\* some resonator runs on the frames: a frequency passes line 111
SomeResonator(rate) == \E pitchClass \in 0..11, octave \in 2..6 : ~Skipped(pitchClass, octave, rate)

estimateChroma(length, tones, finite, rate) ==
    LET frameSize == Min(4096, length)
        hop == Max(1024, frameSize \div 2)
        frames == (length - frameSize) \div hop + 1
    IN  IF frameSize < 1024 THEN Chroma(ZeroChroma, FALSE)
        ELSE Chroma([pitchClass \in 0..11 |-> frames * Acc(tones, rate, pitchClass)],
                    ~finite /\ SomeResonator(rate))

\* a rotation in the other direction
RolledForward(template, root) == [j \in 0..11 |-> template[((j + root) % 12) + 1]]

\* lines 141-144
Rolled(template, root) == [j \in 0..11 |-> template[((j - root + 12) % 12) + 1]]

RECURSIVE DotUpTo(_, _, _)
DotUpTo(v, w, j) == IF j < 0 THEN 0 ELSE v[j] * w[j] + DotUpTo(v, w, j - 1)

\* A score is dot / sqrt(7 * norm2) for a chroma of non-zero norm, and dot = 0
\* for the zero chroma; -Infinity is the score before the first candidate.
\* One NaN component makes every score NaN, since the sum of lines 149-151
\* runs over all twelve components.
MinusInfinity == [kind |-> "-Infinity", dot |-> 0]
Score(chroma, template, root) ==
    IF chroma.nan THEN [kind |-> "NaN", dot |-> 0]
    ELSE [kind |-> "number", dot |-> DotUpTo(chroma.raw, Rolled(template, root), 11)]

\* a comparison that lets a later candidate take a tie
GreaterOrEqual(score, bestScore) ==
    score.kind = "number" /\ (bestScore.kind = "-Infinity" \/ score.dot >= bestScore.dot)

\* score > bestScore, line 153: the scores of one call share their divisor
Greater(score, bestScore) ==
    score.kind = "number" /\ (bestScore.kind = "-Infinity" \/ score.dot > bestScore.dot)

Suffix(k) == IF k % 2 = 0 THEN "Major" ELSE "Minor"
Template(k) == IF k % 2 = 0 THEN MAJOR_TEMPLATE ELSE MINOR_TEMPLATE

NoKey == [bestScore |-> MinusInfinity, bestKey |-> "null"]

\* the candidate loops, lines 139-158: candidate k is root k \div 2 with the
\* Major template for even k and the Minor template for odd k
RECURSIVE KeyLoop(_, _)
KeyLoop(chroma, k) ==
    IF k < 0 THEN NoKey
    ELSE LET before == KeyLoop(chroma, k - 1)
             score == Score(chroma, Template(k), k \div 2)
         IN  IF Greater(score, before.bestScore)
             THEN [bestScore |-> score, bestKey |-> NOTE_NAMES[k \div 2 + 1] \o " " \o Suffix(k)]
             ELSE before

\* a clamp from above only
ConfidenceAtMostOne(bestScore, norm2) ==
    IF bestScore.kind = "-Infinity" \/ bestScore.dot < 0 THEN [num |-> -1, den2 |-> 1]
    ELSE IF bestScore.dot = 0 \/ norm2 = 0 THEN [num |-> 0, den2 |-> 1]
    ELSE IF bestScore.dot * bestScore.dot >= 7 * norm2 THEN [num |-> 1, den2 |-> 1]
    ELSE [num |-> bestScore.dot, den2 |-> 7 * norm2]

\* Math.max(0, Math.min(1, bestScore)), line 160, as num / sqrt(den2)
Confidence(bestScore, norm2) ==
    IF bestScore.kind = "-Infinity" \/ bestScore.dot <= 0 \/ norm2 = 0 THEN [num |-> 0, den2 |-> 1]
    ELSE IF bestScore.dot * bestScore.dot >= 7 * norm2 THEN [num |-> 1, den2 |-> 1]
    ELSE [num |-> bestScore.dot, den2 |-> 7 * norm2]

detectKey(length, tones, finite, rate) ==
    IF length = 0 \/ rate <= 0 THEN [keyName |-> "null", confidence |-> [num |-> 0, den2 |-> 1]]
    ELSE LET chroma == estimateChroma(Min(length, rate * 30), tones, finite, rate)
             best == KeyLoop(chroma, 23)
         IN  [keyName |-> best.bestKey, confidence |-> Confidence(best.bestScore, chroma.norm2)]

KeyLengths == {0, 1, 1023, 1024, 2048, 4096, 5120, 8192}
KeyRates == {-1, 0, 20, 300, 2400, 22050}
KeyTones == {Tone(0, 4), Tone(1, 4), Tone(6, 4), Tone(9, 4), Tone(3, 2), Tone(9, 6), Tone(10, 6)}

KeyCalls ==
    {[fn |-> "detectKey", length |-> n, tones |-> t, finite |-> TRUE, sampleRate |-> r] :
        n \in KeyLengths \ {0}, t \in {x \in SUBSET KeyTones : Cardinality(x) <= MaxTones}, r \in KeyRates}
    \cup {[fn |-> "detectKey", length |-> n, tones |-> {}, finite |-> FALSE, sampleRate |-> r] :
        n \in KeyLengths \ {0}, r \in KeyRates}
    \cup {[fn |-> "detectKey", length |-> 0, tones |-> {}, finite |-> TRUE, sampleRate |-> r] : r \in KeyRates}

InitKey == call \in KeyCalls /\ pc = "call" /\ result = NoResult /\ Idle

DetectKey ==
    /\ pc = "call"
    /\ result' = detectKey(call.length, call.tones, call.finite, call.sampleRate)
    /\ pc' = "returned"
    /\ UNCHANGED <<botVars, buf, call, tried, wavVars>>

SpecKey == InitKey /\ [][DetectKey]_vars

\* the chroma vector of the call's signal
CallChroma == estimateChroma(Min(call.length, call.sampleRate * 30), call.tones, call.finite, call.sampleRate)

\* the chroma vector of the call's signal is all-zero
AllZeroChroma == CallChroma.raw = ZeroChroma /\ ~CallChroma.nan

ZeroConfidence == result.confidence.num = 0

\* C10 as stated: for every signal whose chroma vector is all-zero (a silent
\* signal, or one too short to analyse), detectKey returns confidence 0 with
\* a present key name, always "C Major".
C10_ZeroChromaIsCMajor ==
    (pc = "returned" /\ AllZeroChroma) => (result.keyName = "C Major" /\ ZeroConfidence)

\* C10 as the code has it: for every non-empty signal with a positive sample
\* rate whose chroma vector is all-zero, detectKey returns confidence 0 with
\* the key name "C Major"; for an empty signal or a sample rate <= 0 it
\* returns confidence 0 with no key name.
C10_ZeroChromaIsCMajorUnlessEmpty ==
    (pc = "returned" /\ AllZeroChroma) =>
        /\ ZeroConfidence
        /\ (call.length > 0 /\ call.sampleRate > 0) => result.keyName = "C Major"
        /\ (call.length = 0 \/ call.sampleRate <= 0) => result.keyName = "null"

C10_Witness ==
    /\ pc = "returned"
    /\ call.length >= 1024
    /\ call.sampleRate > 0
    /\ call.tones # {}
    /\ AllZeroChroma
    /\ result.keyName = "C Major"
    /\ ZeroConfidence

\* C11: for every chroma vector the reported key is the (root, mode) pair
\* with the maximum dot product between the chroma and the normalised
\* template rotated by rotated[j] = template[(j - root + 12) mod 12], over
\* all 24 candidates, and among candidates sharing the maximum the first in
\* iteration order (root ascending, Major before Minor at each root).
Rotated(template, root) == [j \in 0..11 |-> template[((j - root + 12) % 12) + 1]]

\* candidate k of the iteration order: root k \div 2, Major for even k
CandidateDot(k) == DotUpTo(CallChroma.raw, Rotated(Template(k), k \div 2), 11)
CandidateName(k) == NOTE_NAMES[k \div 2 + 1] \o " " \o (IF k % 2 = 0 THEN "Major" ELSE "Minor")

\* detectKey computed a chroma vector of numbers
Scored == pc = "returned" /\ call.length > 0 /\ call.sampleRate > 0 /\ ~CallChroma.nan

C11_FirstMaximalCandidate ==
    Scored =>
        \E k \in 0..23 :
            /\ result.keyName = CandidateName(k)
            /\ \A m \in 0..23 : CandidateDot(m) <= CandidateDot(k)
            /\ \A m \in 0..(k - 1) : CandidateDot(m) < CandidateDot(k)

\* a key other than the first candidate wins, and a later candidate ties with it
C11_Witness ==
    /\ Scored
    /\ \E k \in 1..22 :
        /\ result.keyName = CandidateName(k)
        /\ CandidateDot(k) > 0
        /\ \E m \in (k + 1)..23 : CandidateDot(m) = CandidateDot(k)

\* C12: the confidence returned by detectKey is in [0, 1] for every input
\* (empty, silent, short or arbitrary signal, any sample rate), and it is
\* the best candidate score clamped to [0, 1].
MaxDot == CHOOSE d \in {CandidateDot(k) : k \in 0..23} : \A k \in 0..23 : CandidateDot(k) <= d

C12_ConfidenceClamped ==
    pc = "returned" =>
        /\ result.confidence.num >= 0
        /\ result.confidence.den2 > 0
        /\ result.confidence.num * result.confidence.num <= result.confidence.den2
        /\ (Scored /\ CallChroma.norm2 > 0 /\ MaxDot * MaxDot < 7 * CallChroma.norm2) =>
               /\ result.confidence.num * result.confidence.num * 7 * CallChroma.norm2
                      = MaxDot * MaxDot * result.confidence.den2
               /\ MaxDot > 0 => result.confidence.num > 0
        /\ (Scored /\ CallChroma.norm2 > 0 /\ MaxDot * MaxDot >= 7 * CallChroma.norm2) =>
               result.confidence = [num |-> 1, den2 |-> 1]
        /\ (~Scored \/ CallChroma.norm2 = 0) => result.confidence.num = 0

\* a signal with samples that are not finite, and one with a score inside (0, 1)
C12_Witness ==
    /\ pc = "returned"
    /\ \/ CallChroma.nan /\ result.confidence.num = 0
       \/ Scored /\ result.confidence.num > 1 /\ result.confidence.num * result.confidence.num < result.confidence.den2

-----------------------------------------------------------------------------
\* suggestChords (src/music.js lines 164-179)
\*
\* A key name is given by its words, the parts that keyName.split(" ")
\* yields; NoKeyName stands for null and <<"">> for the empty string.

NoKeyName == <<>>

\* NOTE_NAMES.indexOf(baseNote)
IndexOf(baseNote) ==
    IF \E n \in 1..12 : NOTE_NAMES[n] = baseNote
    THEN (CHOOSE n \in 1..12 : NOTE_NAMES[n] = baseNote) - 1
    ELSE -1

\* the major intervals for every scale type
MajorIntervals(scaleType) == <<0, 2, 4, 5, 7, 9, 11>>

\* lines 171 and 176
Intervals(scaleType) ==
    IF scaleType = "Major" THEN <<0, 2, 4, 5, 7, 9, 11>> ELSE <<0, 2, 3, 5, 7, 8, 10>>

\* lines 172 and 177
Suffixes(scaleType) ==
    IF scaleType = "Major" THEN <<"", "m", "m", "", "", "m", "dim">>
    ELSE <<"m", "dim", "", "m", "m", "", "">>

suggestChords(keyName) ==
    IF keyName = NoKeyName \/ keyName = <<"">> THEN <<>>
    ELSE LET baseNote == keyName[1]
             scaleType == IF Len(keyName) >= 2 THEN keyName[2] ELSE "undefined"
             baseIdx == IndexOf(baseNote)
         IN  IF baseIdx < 0 THEN <<>>
             ELSE [index \in 1..7 |->
                      NOTE_NAMES[((baseIdx + Intervals(scaleType)[index]) % 12) + 1]
                          \o Suffixes(scaleType)[index]]

Roots == {NOTE_NAMES[n] : n \in 1..12} \cup {"H", "c", "Db", "Cb"}
Modes == {"Major", "Minor", "major", "Dorian"}

ChordCalls ==
    {[fn |-> "suggestChords", keyName |-> k] :
        k \in {<<r, m>> : r \in Roots, m \in Modes}
              \cup {<<r>> : r \in Roots}
              \cup {<<r, "Major", "key">> : r \in Roots}
              \cup {NoKeyName, <<"">>}}

InitChords == call \in ChordCalls /\ pc = "call" /\ result = <<>> /\ Idle

SuggestChords ==
    /\ pc = "call"
    /\ result' = suggestChords(call.keyName)
    /\ pc' = "returned"
    /\ UNCHANGED <<botVars, buf, call, tried, wavVars>>

SpecChords == InitChords /\ [][SuggestChords]_vars

\* C13: for every root R of the table suggestChords("R Major") is the 7
\* chords table[(R + i) mod 12] + suffix for intervals 0,2,4,5,7,9,11 with
\* suffixes "",m,m,"","",m,dim, and suggestChords("R Minor") the 7 chords for
\* intervals 0,2,3,5,7,8,10 with suffixes m,dim,"",m,m,"","", in scale-degree
\* order; "C Major" gives C Dm Em F G Am Bdim and "A Minor" gives
\* Am Bdim C Dm Em F G; a root outside the table or an absent key gives the
\* empty list.
Diatonic(R, intervals, suffixes) ==
    [degree \in 1..7 |-> NOTE_NAMES[((R + intervals[degree]) % 12) + 1] \o suffixes[degree]]

C13_DiatonicChords ==
    pc = "returned" =>
        /\ \A R \in 0..11 :
            /\ call.keyName = <<NOTE_NAMES[R + 1], "Major">> =>
                   result = Diatonic(R, <<0, 2, 4, 5, 7, 9, 11>>, <<"", "m", "m", "", "", "m", "dim">>)
            /\ call.keyName = <<NOTE_NAMES[R + 1], "Minor">> =>
                   result = Diatonic(R, <<0, 2, 3, 5, 7, 8, 10>>, <<"m", "dim", "", "m", "m", "", "">>)
        /\ call.keyName = <<"C", "Major">> => result = <<"C", "Dm", "Em", "F", "G", "Am", "Bdim">>
        /\ call.keyName = <<"A", "Minor">> => result = <<"Am", "Bdim", "C", "Dm", "Em", "F", "G">>
        /\ (call.keyName \in {NoKeyName, <<"">>} \/ call.keyName[1] \notin {NOTE_NAMES[n] : n \in 1..12}) =>
               result = <<>>

C13_Witness ==
    /\ pc = "returned"
    /\ call.keyName = <<"G#", "Major">>
    /\ result = <<"G#", "A#m", "Cm", "C#", "D#", "Fm", "Gdim">>

-----------------------------------------------------------------------------
\* The Worker's POST /webhook route (src/index.js lines 4-14 and 558-590)
\*
\* Requests are served by one event loop: the code between two awaits runs
\* without interruption, so a request takes two steps, one up to the await of
\* request.json() and one from there to its response.  Time is counted in
\* minutes; a timer may fire late but never early.

MaxRequests == 2
MaxTime == 6

\* 5 * 60 * 1000 ms, line 9
Expiry == 5

\* a number, and the string of digits that reads n
Number(n) == [type |-> "number", value |-> n]
String(n) == [type |-> "string", value |-> n]

\* request bodies: updates by their update_id, and a body that is not JSON
InvalidJson == [json |-> FALSE, update_id |-> String(0)]
Update(id) == [json |-> TRUE, update_id |-> id]
Bodies == {Update(Number(7)), Update(Number(8)), Update(String(7)), InvalidJson}

Headers == {"", "s3cret", "guess"}
WebhookConfigs == {[fn |-> "fetch", WEBHOOK_SECRET |-> secret] : secret \in {"", "s3cret"}}

\* a test that never finds a duplicate
NeverDuplicate(updateId, seen) == FALSE

\* lines 12-14
isDuplicateUpdate(updateId, seen) == updateId.type = "number" /\ updateId.value \in seen

\* lines 6-10: the set and the timers after the call
markUpdateSeen(updateId, seen, pending, time) ==
    IF updateId.type # "number" THEN [seen |-> seen, pending |-> pending]
    ELSE [seen |-> seen \cup {updateId.value},
          pending |-> pending \cup {[id |-> updateId.value, at |-> time + Expiry]}]

Respond(r, status, text) ==
    requests' = [requests EXCEPT ![r].pc = "responded", ![r].status = status,
                                 ![r].response = text, ![r].at = now]

\* lines 558-565: a request arrives and its secret token is examined
Fetch ==
    /\ pc = "serving"
    /\ Len(requests) < MaxRequests
    /\ \E header \in Headers, body \in Bodies :
        LET expectedSecret == call.WEBHOOK_SECRET
            forbidden == expectedSecret # "" /\ header # expectedSecret
        IN  requests' = Append(requests,
                [header |-> header, body |-> body, at |-> IF forbidden THEN now ELSE 0,
                 pc |-> IF forbidden THEN "responded" ELSE "json",
                 status |-> IF forbidden THEN 403 ELSE 0,
                 response |-> IF forbidden THEN "Forbidden" ELSE ""])
    /\ UNCHANGED <<pc, buf, call, tried, result, wavVars, now, recentUpdateIds, timers,
                   handled, messageTexts>>

\* lines 567-589: the body has been read
Json ==
    /\ pc = "serving"
    /\ \E r \in DOMAIN requests :
        /\ requests[r].pc = "json"
        /\ LET update == requests[r].body
               updateId == update.update_id
           IN  IF ~update.json
               THEN /\ Respond(r, 200, "ok")
                    /\ UNCHANGED <<recentUpdateIds, timers, handled>>
               ELSE IF isDuplicateUpdate(updateId, recentUpdateIds)
               THEN /\ Respond(r, 200, "duplicate_ignored")
                    /\ UNCHANGED <<recentUpdateIds, timers, handled>>
               ELSE LET marked == markUpdateSeen(updateId, recentUpdateIds, timers, now)
                    IN  /\ recentUpdateIds' = marked.seen
                        /\ timers' = marked.pending
                        /\ handled' = Append(handled, [update |-> update, at |-> now, request |-> r])
                        /\ Respond(r, 200, "ok")
    /\ UNCHANGED <<pc, buf, call, tried, result, wavVars, now, messageTexts>>

\* line 9: a timer of markUpdateSeen fires
TimerFires ==
    /\ pc = "serving"
    /\ \E timer \in timers :
        /\ timer.at <= now
        /\ recentUpdateIds' = recentUpdateIds \ {timer.id}
        /\ timers' = timers \ {timer}
    /\ UNCHANGED <<pc, buf, call, tried, result, wavVars, now, requests, handled, messageTexts>>

Tick ==
    /\ pc = "serving"
    /\ now < MaxTime
    /\ now' = now + 1
    /\ UNCHANGED <<pc, buf, call, tried, result, wavVars, recentUpdateIds, timers, requests,
                   handled, messageTexts>>

Webhook == Fetch \/ Json \/ TimerFires \/ Tick

InitWebhook == call \in WebhookConfigs /\ pc = "serving" /\ result = NoResult /\ Idle

SpecWebhook == InitWebhook /\ [][Webhook]_vars

\* C14: in every configuration a request whose secret-token header does not
\* carry the correct webhook secret is answered 403 and never causes an
\* update to be recorded as seen or processed.
WrongSecret(r) == requests[r].header # call.WEBHOOK_SECRET

C14_WrongSecretForbidden ==
    \A r \in DOMAIN requests :
        WrongSecret(r) =>
            /\ requests[r].pc = "responded"
            /\ requests[r].status = 403
            /\ \A h \in DOMAIN handled : handled[h].request # r

\* C19: an update with a numeric update_id is handed to handleTelegramUpdate
\* at most once during the 5 minutes after it is first received: of the
\* requests carrying the same id exactly one starts processing and every
\* other one is answered "duplicate_ignored" without processing; the id is
\* forgotten, and a replay processed again, only after the 5-minute expiry.
NumericId(update) == update.json /\ update.update_id.type = "number"
SameId(u, v) == NumericId(u) /\ NumericId(v) /\ u.update_id.value = v.update_id.value
HandledBy(r) == \E h \in DOMAIN handled : handled[h].request = r

C19_AtMostOncePerWindow ==
    /\ \A a, b \in DOMAIN handled :
        (a < b /\ SameId(handled[a].update, handled[b].update)) =>
            handled[b].at - handled[a].at >= Expiry
    /\ \A r \in DOMAIN requests :
        (requests[r].pc = "responded" /\ requests[r].status = 200 /\ NumericId(requests[r].body)) =>
            /\ requests[r].response \in {"ok", "duplicate_ignored"}
            /\ requests[r].response = "ok" <=> HandledBy(r)
            /\ requests[r].response = "duplicate_ignored" =>
                   \E h \in DOMAIN handled :
                       /\ handled[h].request # r
                       /\ handled[h].at <= requests[r].at
                       /\ SameId(handled[h].update, requests[r].body)

\* two requests with one id, one processed and one ignored
C19_Witness ==
    /\ Len(requests) = 2
    /\ SameId(requests[1].body, requests[2].body)
    /\ requests[1].response = "duplicate_ignored"
    /\ requests[2].response = "ok"
    /\ HandledBy(2)
    /\ ~HandledBy(1)

-----------------------------------------------------------------------------
\* processAudioUpdate (src/index.js lines 361-508)
\*
\* The call's arguments say what the outside world does: what the message
\* holds, how long the download, the decoding and the two analysis stages
\* take, what they yield, and which Telegram calls fail.  Here the clock
\* counts milliseconds.  messageTexts is the history of the processing
\* message: the text it was sent with and every text a successful
\* editMessageText gave it.

Text(kind, reason) == [kind |-> kind, reason |-> reason]

\* lines 361-372: the outcome of the race between a task that settles at
\* settlesAt and the timer set when withTimeout is called at calledAt
withTimeout(calledAt, settlesAt, timeoutMs) ==
    IF settlesAt <= calledAt + timeoutMs THEN "task" ELSE "timeout"

TelegramCalls == {"sendMessage", "editEarly", "editDecodeFailed", "editNoPitch", "editAnalysis",
                  "sendDocument", "editFailed"}

ProcessCalls ==
    {[fn |-> "processAudioUpdate", audio |-> a, downloadMs |-> dl, downloadOk |-> dlOk,
      decodeMs |-> dc, decodeOk |-> dcOk, pitchMs |-> pm, pitchFound |-> pf, keyMs |-> km,
      fails |-> f] :
        a \in {"none", "too_large", "unsupported", "ok"},
        dl \in {100, 20000}, dlOk \in BOOLEAN,
        dc \in {100, 30000}, dcOk \in BOOLEAN,
        pm \in {10, 4000}, pf \in BOOLEAN, km \in {10, 6000},
        f \in {x \in SUBSET TelegramCalls : Cardinality(x) <= 1}}

\* telegramJson / telegramMultipart throw, lines 255-257 and 268-270
Fails(method) == method \in call.fails
TelegramError(method) == Thrown("Error", "Telegram " \o method \o " failed")

ProcessUnchanged == UNCHANGED <<buf, call, tried, wavVars, recentUpdateIds, timers, requests, handled>>

\* lines 375-380, outside the try block
SendProcessing ==
    /\ pc = "process"
    /\ IF Fails("sendMessage")
       THEN /\ pc' = "rejected"
            /\ result' = TelegramError("sendMessage")
            /\ UNCHANGED messageTexts
       ELSE /\ pc' = "parse"
            /\ messageTexts' = <<Text("processing", "")>>
            /\ UNCHANGED result
    /\ UNCHANGED now
    /\ ProcessUnchanged

\* an editMessageText inside the try block and what follows it
Edit(method, text, next) ==
    IF Fails(method)
    THEN /\ pc' = "catch"
         /\ result' = TelegramError(method)
         /\ UNCHANGED messageTexts
    ELSE /\ pc' = next
         /\ messageTexts' = Append(messageTexts, text)
         /\ UNCHANGED result

\* lines 388-426
ParseAudio ==
    /\ pc = "parse"
    /\ IF call.audio = "ok"
       THEN pc' = "download" /\ UNCHANGED <<result, messageTexts>>
       ELSE Edit("editEarly", Text(call.audio, ""), "done")
    /\ UNCHANGED now
    /\ ProcessUnchanged

\* line 428
Download ==
    /\ pc = "download"
    /\ LET outcome == withTimeout(now, now + call.downloadMs, 15000)
       IN  /\ now' = IF outcome = "timeout" THEN now + 15000 ELSE now + call.downloadMs
           /\ IF outcome = "timeout"
              THEN pc' = "catch" /\ result' = Thrown("Error", "download_timeout")
              ELSE IF ~call.downloadOk
              THEN pc' = "catch" /\ result' = Thrown("Error", "File download failed")
              ELSE pc' = "decode" /\ UNCHANGED result
    /\ UNCHANGED messageTexts
    /\ ProcessUnchanged

\* lines 430-460, with the default decodeTimeoutMs of 22000
Decode ==
    /\ pc = "decode"
    /\ LET outcome == withTimeout(now, now + call.decodeMs, 22000)
           failed == outcome = "timeout" \/ ~call.decodeOk
       IN  /\ now' = IF outcome = "timeout" THEN now + 22000 ELSE now + call.decodeMs
           /\ IF failed
              THEN /\ pc' = "done"
                   /\ result' = Thrown("Error", IF outcome = "timeout" THEN "decode_timeout" ELSE "decode_error")
                   /\ messageTexts' = IF Fails("editDecodeFailed") THEN messageTexts
                                      ELSE Append(messageTexts, Text("decode_failed", ""))
              ELSE pc' = "pitch" /\ UNCHANGED <<result, messageTexts>>
    /\ ProcessUnchanged

\* lines 462-466: detectPitch runs to its end while the argument of
\* withTimeout is evaluated; withTimeout is called with a settled promise
PitchStage ==
    /\ pc = "pitch"
    /\ LET returned == now + call.pitchMs
           outcome == withTimeout(returned, returned, 3000)
       IN  /\ now' = returned
           /\ IF outcome = "timeout"
              THEN pc' = "catch" /\ result' = Thrown("Error", "pitch_timeout")
              ELSE /\ pc' = IF call.pitchFound THEN "key" ELSE "no_pitch"
                   /\ UNCHANGED result
    /\ UNCHANGED messageTexts
    /\ ProcessUnchanged

\* lines 467-474
NoPitchFound ==
    /\ pc = "no_pitch"
    /\ Edit("editNoPitch", Text("no_pitch", ""), "done")
    /\ UNCHANGED now
    /\ ProcessUnchanged

\* lines 476-482: detectKey likewise runs before withTimeout is called
KeyStage ==
    /\ pc = "key"
    /\ LET returned == now + call.keyMs
           outcome == withTimeout(returned, returned, 5000)
       IN  /\ now' = returned
           /\ IF outcome = "timeout"
              THEN pc' = "catch" /\ result' = Thrown("Error", "key_timeout")
              ELSE pc' = "analysis" /\ UNCHANGED result
    /\ UNCHANGED messageTexts
    /\ ProcessUnchanged

\* lines 484-488
EditAnalysis ==
    /\ pc = "analysis"
    /\ Edit("editAnalysis", Text("analysis", ""), "document")
    /\ UNCHANGED now
    /\ ProcessUnchanged

\* lines 490-496
SendDocument ==
    /\ pc = "document"
    /\ IF Fails("sendDocument")
       THEN pc' = "catch" /\ result' = TelegramError("sendDocument")
       ELSE pc' = "done" /\ UNCHANGED result
    /\ UNCHANGED <<now, messageTexts>>
    /\ ProcessUnchanged

\* lines 497-507: a failure of this edit is swallowed
Catch ==
    /\ pc = "catch"
    /\ pc' = "done"
    /\ messageTexts' = IF Fails("editFailed") THEN messageTexts
                       ELSE Append(messageTexts, Text("processing_failed", result.message))
    /\ UNCHANGED <<now, result>>
    /\ ProcessUnchanged

processAudioUpdate ==
    \/ SendProcessing \/ ParseAudio \/ Download \/ Decode \/ PitchStage \/ NoPitchFound
    \/ KeyStage \/ EditAnalysis \/ SendDocument \/ Catch

InitProcess == call \in ProcessCalls /\ pc = "process" /\ result = NoResult /\ Idle

SpecProcess == InitProcess /\ [][processAudioUpdate]_vars

\* C15: the pitch and key stages run under the caller's deadline: if
\* detectPitch takes longer than 3000 ms, or detectKey longer than 5000 ms,
\* withTimeout rejects with "pitch_timeout" / "key_timeout" and the request
\* ends in the processing-failed path instead of waiting for the stage.
C15_StageDeadlines ==
    /\ call.pitchMs > 3000 => pc \notin {"key", "no_pitch"}
    /\ call.keyMs > 5000 => pc # "analysis"

\* C20: once the analysis text has been delivered by a successful
\* editMessageText, no later step of the request overwrites the processing
\* message with a failure text; a failed sendDocument leaves the analysis.
C20_AnalysisStays ==
    \A a, b \in DOMAIN messageTexts :
        (a < b /\ messageTexts[a].kind = "analysis") => messageTexts[b].kind # "processing_failed"

====
